---------------------------- MODULE Spec2Model ----------------------------
(***************************************************************************)
(* A model of the Graphite price estimator (src/app): the /estimate and    *)
(* /seed handlers of main.py, the fetcher, extractor and collector of      *)
(* scrape_ebay.py, the statistics of pricing.py, the presenter of          *)
(* public_view.py, the profile matcher of model_profiles.py and the file   *)
(* cache of cache.py.                                                      *)
(*                                                                         *)
(* Representation.  Money is an integer number of cents, a confidence an   *)
(* integer number of thousandths, a percentage delta an integer number of  *)
(* tenths of a percent.  Python's None is the empty tuple and a present    *)
(* value x the one-element tuple <<x>>.  A string that the code inspects   *)
(* character by character (the query, a profile key) is a tuple of         *)
(* one-character strings.                                                  *)
(***************************************************************************)
EXTENDS Integers, Sequences, FiniteSets, TLC

\* ------------------------------------------------------------------ bounds

\* Largest max_retries a direct call of fetch_html is given (SpecFetch).
MaxRetriesArg == 4
\* Number of cache writes (the logical clock behind cached_at) in one behaviour:
\* once that many are made, no further request is taken.
MaxClock == 2
\* Longest list of prices given to summarize_prices on its own (SpecPure).
MaxPrices == 5
\* Largest confidence, in thousandths, and largest n given to
\* accuracy_pct_from_confidence on its own; the confidence starts below 0.
MaxConfidence == 1050
MaxN == 3
\* Largest casp and asking given to deal_score on its own; both start at -1.
MaxCasp == 100
MaxAsking == 130
\* Largest number of pieces json.dump writes a cache record in (SpecConcurrent).
MaxChunks == 3

\* ------------------------------------------------------- optional values

None == <<>>

Some(x) == <<x>>

IsNone(o) == o = <<>>

Val(o) == o[1]

\* ------------------------------------------------------------ arithmetic

Min2(a, b) == IF a <= b THEN a ELSE b

Max2(a, b) == IF a >= b THEN a ELSE b

Abs(a) == IF a < 0 THEN -a ELSE a

\* 2 ** e for a natural e.
RECURSIVE Pow2(_)
Pow2(e) == IF e = 0 THEN 1 ELSE 2 * Pow2(e - 1)

\* Python's round(): num/den (den > 0) to the nearest integer, ties to even.
RoundDiv(num, den) ==
    LET q == num \div den
        r == num % den
    IN  IF 2 * r < den THEN q
        ELSE IF 2 * r > den THEN q + 1
        ELSE IF q % 2 = 0 THEN q ELSE q + 1

\* int(): truncation toward zero of num/den (den > 0).
TruncDiv(num, den) == IF num >= 0 THEN num \div den ELSE -((-num) \div den)

\* The greatest common divisor of a > 0 and b >= 0.
RECURSIVE Gcd(_, _)
Gcd(a, b) == IF b = 0 THEN a ELSE Gcd(b, a % b)

RECURSIVE SumSeq(_)
SumSeq(s) == IF s = <<>> THEN 0 ELSE Head(s) + SumSeq(Tail(s))

RECURSIVE InsertSorted(_, _)
InsertSorted(x, s) ==
    IF s = <<>> THEN <<x>>
    ELSE IF x <= Head(s) THEN <<x>> \o s
    ELSE <<Head(s)>> \o InsertSorted(x, Tail(s))

\* sorted(xs)
RECURSIVE Sorted(_)
Sorted(s) == IF s = <<>> THEN <<>> ELSE InsertSorted(Head(s), Sorted(Tail(s)))

\* xs[:k]
Take(s, k) == SubSeq(s, 1, Min2(k, Len(s)))

\* ------------------------------------------------------------ pricing.py

\* [float(p) for p in prices if p is not None]
RECURSIVE DropNone(_)
DropNone(s) ==
    IF s = <<>> THEN <<>>
    ELSE IF IsNone(Head(s)) THEN DropNone(Tail(s))
    ELSE <<Val(Head(s))>> \o DropNone(Tail(s))

\* Variant: a price of zero is kept.
RECURSIVE KeepPositive_keeping_zero(_)
KeepPositive_keeping_zero(s) ==
    IF s = <<>> THEN <<>>
    ELSE IF Head(s) >= 0 THEN <<Head(s)>> \o KeepPositive_keeping_zero(Tail(s))
    ELSE KeepPositive_keeping_zero(Tail(s))

\* [p for p in clean if p > 0]
RECURSIVE KeepPositive(_)
KeepPositive(s) ==
    IF s = <<>> THEN <<>>
    ELSE IF Head(s) > 0 THEN <<Head(s)>> \o KeepPositive(Tail(s))
    ELSE KeepPositive(Tail(s))

\* _median, times 2 (the mean of the two middle elements may be a half).
Median2(xs) ==
    LET s == Sorted(xs)
        n == Len(s)
        mid == n \div 2
    IN  IF n % 2 = 1 THEN 2 * s[mid + 1] ELSE s[mid] + s[mid + 1]

\* Variant: the two weights of the interpolation are exchanged.
Percentile100_weights_swapped(xs, p) ==
    LET s == Sorted(xs)
        n == Len(s)
        k100 == (n - 1) * p
        f == k100 \div 100
        c == Min2(f + 1, n - 1)
    IN  IF p <= 0 THEN 100 * s[1]
        ELSE IF p >= 100 THEN 100 * s[n]
        ELSE IF f = c THEN 100 * s[f + 1]
        ELSE s[f + 1] * (k100 - 100 * f) + s[c + 1] * (100 * c - k100)

\* _percentile, times 100: k = (n-1)*p/100, f = int(k), c = min(f+1, n-1),
\* xs[f]*(c-k) + xs[c]*(k-f).  Indices are 0-based in the code, 1-based here.
Percentile100(xs, p) ==
    LET s == Sorted(xs)
        n == Len(s)
        k100 == (n - 1) * p
        f == k100 \div 100
        c == Min2(f + 1, n - 1)
    IN  IF p <= 0 THEN 100 * s[1]
        ELSE IF p >= 100 THEN 100 * s[n]
        ELSE IF f = c THEN 100 * s[f + 1]
        ELSE s[f + 1] * (100 * c - k100) + s[c + 1] * (k100 - 100 * f)

\* _trimmed_mean with trim_frac = 0.1, as the pair <<sum(core), len(core)>>.
TrimmedMeanFrac(xs) ==
    LET s == Sorted(xs)
        n == Len(s)
        k == n \div 10
        core == IF n - 2 * k > 0 THEN SubSeq(s, k + 1, n - k) ELSE s
    IN  <<SumSeq(core), Len(core)>>

EmptySummary ==
    [n |-> 0, median |-> None, trimmed_mean |-> None, p25 |-> None, p75 |-> None,
     min_price |-> None, max_price |-> None, confidence |-> 0]

\* 1000 * confidence before rounding, as <<numerator, denominator>>:
\* size_score = 1 - 1/(1 + n/8) = n/(n+8); spread_score = 1 - clamp(iqr/med, 0, 1),
\* rel_spread = 1 when med <= 0; confidence = clamp(0.65*size + 0.35*spread, 0, 1).
\* iqr/med is reduced to lowest terms first, which keeps the products small.
ConfidenceFrac(n, med2, p25c, p75c) ==
    LET iqr == Max2(p75c - p25c, 0)
        med == 50 * med2
        g == IF med > 0 THEN Gcd(med, Min2(iqr, med)) ELSE 1
        rel == IF med > 0 THEN Min2(iqr, med) \div g ELSE 1
        den == IF med > 0 THEN med \div g ELSE 1
    IN  <<650 * n * den + 350 * (den - rel) * (n + 8), (n + 8) * den>>

\* summarize_prices: prices may hold None.
summarize_prices(prices) ==
    LET clean == KeepPositive(DropNone(prices))
        n == Len(clean)
    IN  IF n = 0 THEN EmptySummary
        ELSE
          LET med2 == Median2(clean)
              p25c == Percentile100(clean, 25)
              p75c == Percentile100(clean, 75)
              tm == IF n >= 5 THEN TrimmedMeanFrac(clean) ELSE <<SumSeq(clean), n>>
              s == Sorted(clean)
              cf == ConfidenceFrac(n, med2, p25c, p75c)
              conf == Max2(0, Min2(1000, RoundDiv(cf[1], cf[2])))
          IN  [n |-> n,
               median |-> Some(RoundDiv(med2, 2)),
               trimmed_mean |-> Some(RoundDiv(tm[1], tm[2])),
               p25 |-> Some(RoundDiv(p25c, 100)),
               p75 |-> Some(RoundDiv(p75c, 100)),
               min_price |-> Some(s[1]),
               max_price |-> Some(s[n]),
               confidence |-> conf]

\* comps_to_prices: listings without a price are left out; shipping is added
\* when asked for and present.
RECURSIVE comps_to_prices(_, _)
comps_to_prices(cs, include_shipping) ==
    IF cs = <<>> THEN <<>>
    ELSE
      LET c == Head(cs)
          rest == comps_to_prices(Tail(cs), include_shipping)
      IN  IF IsNone(c.price) THEN rest
          ELSE IF include_shipping /\ ~IsNone(c.shipping)
               THEN <<Some(Val(c.price) + Val(c.shipping))>> \o rest
               ELSE <<Some(Val(c.price))>> \o rest

\* ------------------------------------------------------------- strings

\* str.lower() on the characters the model uses.
LowerChar(c) ==
    CASE c = "J" -> "j"
      [] c = "X" -> "x"
      [] c = "K" -> "k"
      [] c = "Y" -> "y"
      [] c = "O" -> "o"
      [] OTHER -> c

Lower(s) == [i \in 1..Len(s) |-> LowerChar(s[i])]

RECURSIVE LStrip(_)
LStrip(s) == IF s # <<>> /\ Head(s) = " " THEN LStrip(Tail(s)) ELSE s

RECURSIVE RStrip(_)
RStrip(s) ==
    IF s # <<>> /\ s[Len(s)] = " " THEN RStrip(SubSeq(s, 1, Len(s) - 1)) ELSE s

\* str.strip()
Strip(s) == RStrip(LStrip(s))

\* Python's `sub in s` for strings.
IsSubstring(sub, s) ==
    \E i \in 0..(Len(s) - Len(sub)) : SubSeq(s, i + 1, i + Len(sub)) = sub

\* dict.update: the keys of d2 win.
DictUpdate(d1, d2) == d2 @@ d1

\* dict.get(k), None when the key is missing.
DictGet(d, k) == IF k \in DOMAIN d THEN d[k] ELSE None

EmptyDict == <<>>

\* --------------------------------------------------------- public_view.py

\* quantize_to_10 of a percent given as thousandths of the confidence
\* (pct = c/10): int(round(pct / 10.0) * 10), clamped to [0, 100].
quantize_to_10(c) == Max2(0, Min2(100, RoundDiv(c, 100) * 10))

\* Variant: the floor of 10 for a sample that is not empty is missing.
accuracy_pct_from_confidence_unfloored(c, n) ==
    IF n <= 0 THEN 0
    ELSE quantize_to_10(Max2(0, Min2(1000, c)))

\* accuracy_pct_from_confidence(confidence, n), confidence in thousandths.
accuracy_pct_from_confidence(c, n) ==
    IF n <= 0 THEN 0
    ELSE Max2(10, quantize_to_10(Max2(0, Min2(1000, c))))

accuracy_label(pct) ==
    IF pct >= 80 THEN "Very High"
    ELSE IF pct >= 60 THEN "High"
    ELSE IF pct >= 40 THEN "Medium"
    ELSE IF pct >= 20 THEN "Low"
    ELSE "Very Low"

\* Variant: Fair ends at -5 instead of -10.
DealBand_fair_from_minus_5(delta, casp) ==
    IF 100 * delta >= 25 * casp THEN <<5, "Great">>
    ELSE IF 100 * delta >= 15 * casp THEN <<4, "Good">>
    ELSE IF 100 * delta >= -5 * casp THEN <<3, "Fair">>
    ELSE IF 100 * delta >= -25 * casp THEN <<2, "Bad">>
    ELSE <<1, "Terrible">>

\* The score and label bands of deal_score on delta_pct = 100 * delta / casp.
DealBand(delta, casp) ==
    IF 100 * delta >= 25 * casp THEN <<5, "Great">>
    ELSE IF 100 * delta >= 15 * casp THEN <<4, "Good">>
    ELSE IF 100 * delta >= -10 * casp THEN <<3, "Fair">>
    ELSE IF 100 * delta >= -25 * casp THEN <<2, "Bad">>
    ELSE <<1, "Terrible">>

\* deal_score(casp, asking): the dict it returns ({} for a non-positive input).
deal_score(casp, asking) ==
    IF casp <= 0 \/ asking <= 0 THEN EmptyDict
    ELSE
      LET delta == casp - asking
          band == DealBand(delta, casp)
      IN  [deal_score |-> band[1],
           deal_label |-> band[2],
           delta |-> delta,
           delta_pct |-> RoundDiv(1000 * delta, casp),
           asking |-> asking]

\* build_public_payload(casp, confidence, asking): main.py imports it from
\* public_view, which does not define it; modelled from the Public Presenter
\* of the specification (casp, quantized accuracy floored at 10 when there is
\* a sample, banded label, deal fields when casp and asking are both known).
build_public_payload(casp, confidence, asking) ==
    LET acc == IF confidence <= 0 THEN 0
               ELSE Max2(10, quantize_to_10(Max2(0, Min2(1000, confidence))))
        base == [casp |-> casp,
                 casp_label |-> "Calculated average sold price",
                 accuracy_pct |-> acc,
                 accuracy_label |-> accuracy_label(acc)]
    IN  IF ~IsNone(asking) /\ ~IsNone(casp)
        THEN DictUpdate(base, deal_score(Val(casp), Val(asking)))
        ELSE base

\* ------------------------------------------------------- model_profiles.py

\* _quantize_10
quantize_10(x) == Max2(0, Min2(100, RoundDiv(x, 10) * 10))

\* dict[key] = value on an insertion-ordered dict held as a sequence of
\* [key, value] pairs: an existing key keeps its place.
DictPut(d, k, v) ==
    IF \E i \in 1..Len(d) : d[i].key = k
    THEN [i \in 1..Len(d) |-> IF d[i].key = k THEN [key |-> k, value |-> v] ELSE d[i]]
    ELSE Append(d, [key |-> k, value |-> v])

\* load_profiles on the parsed models.json, a sequence of [k, casp, accuracy_pct]
\* entries: keys are stripped and lower-cased, accuracy_pct is quantized.
RECURSIVE LoadInto(_, _)
LoadInto(raw, acc) ==
    IF raw = <<>> THEN acc
    ELSE
      LET e == Head(raw)
          prof == [key |-> Strip(e.k),
                   casp |-> e.casp,
                   accuracy_pct |-> IF IsNone(e.accuracy_pct) THEN None
                                    ELSE Some(quantize_10(Val(e.accuracy_pct)))]
      IN  LoadInto(Tail(raw), DictPut(acc, Lower(Strip(e.k)), prof))

load_profiles(raw) == LoadInto(raw, <<>>)

\* The first profile, in dict order, whose non-empty key is a substring of q.
RECURSIVE FirstSubstringHit(_, _)
FirstSubstringHit(q, d) ==
    IF d = <<>> THEN None
    ELSE IF Head(d).key # <<>> /\ IsSubstring(Head(d).key, q) THEN Some(Head(d).value)
    ELSE FirstSubstringHit(q, Tail(d))

\* match_profile(query, profiles): exact key first, then the first substring hit.
match_profile(query, profs) ==
    LET q == Lower(Strip(query))
    IN  IF q = <<>> THEN None
        ELSE IF \E i \in 1..Len(profs) : profs[i].key = q
        THEN Some((CHOOSE e \in {profs[i] : i \in 1..Len(profs)} : e.key = q).value)
        ELSE FirstSubstringHit(q, profs)

\* ---------------------------------------------------------- scrape_ebay.py

\* The statuses fetch_html sleeps on and retries.
RetryableStatuses == {429, 500, 502, 503, 504}

\* What the upstream may answer: to a direct call of fetch_html every status
\* the code distinguishes, to the calls an estimate makes a smaller choice.
StatusCodes(who) ==
    IF who = "fetch_html" THEN {200, 404} \cup RetryableStatuses
    ELSE {200, 404, 503}

\* The features string parse_sold_results hands to BeautifulSoup.
ParserFeature == "lmxl"

\* The feature names bs4's builder registry resolves (html.parser, lxml and
\* html5lib installed).
Bs4Features ==
    {"html.parser", "lxml", "lxml-xml", "xml", "html5lib", "html", "html5",
     "fast", "permissive", "strict"}

\* build_sold_search_url: the url is determined by the query and the page.
build_sold_search_url(query, p) == [nkw |-> query, pgn |-> p]

\* One li.s-item of a page: title is the text of .s-item__title (None without
\* the element), href the link's href (None without a.s-item__link), price the
\* amount _parse_money finds in .s-item__price (absent: the element is
\* missing; None inside: no number in the text), shipping what _parse_shipping
\* finds.
Item(title, href, price_el, shipping) ==
    [title |-> title, href |-> href, price_el |-> price_el, shipping |-> shipping]

\* str.lower() on a title.
LowerTitle(t) == IF t = "Shop on eBay" THEN "shop on ebay" ELSE t

\* _clean_title: a leading "New Listing" is removed.
clean_title(t) == IF t = "New Listing Carhartt J01" THEN "Carhartt J01" ELSE t

\* The loop body of parse_sold_results for one entry: <<>> when the entry is
\* skipped, else the one listing.
ExtractItem(li) ==
    IF IsNone(li.title) \/ IsNone(li.href) \/ IsNone(li.price_el) THEN <<>>
    ELSE IF Val(li.title) = "" \/ LowerTitle(Val(li.title)) = "shop on ebay" THEN <<>>
    ELSE IF Strip(Val(li.href)) = <<>> THEN <<>>
    ELSE << [title |-> clean_title(Val(li.title)),
             price |-> Val(li.price_el),
             shipping |-> li.shipping,
             url |-> Strip(Val(li.href))] >>

RECURSIVE ExtractAll(_)
ExtractAll(html) ==
    IF html = <<>> THEN <<>> ELSE ExtractItem(Head(html)) \o ExtractAll(Tail(html))

\* The dedup loop of scrape_ebay_sold: `seen` is the set of urls met so far.
RECURSIVE DedupFrom(_, _)
DedupFrom(cs, seen) ==
    IF cs = <<>> THEN <<>>
    ELSE IF Head(cs).url \in seen THEN DedupFrom(Tail(cs), seen)
    ELSE <<Head(cs)>> \o DedupFrom(Tail(cs), seen \cup {Head(cs).url})

\* Variant: nothing is left out.
Dedup_keeping_all(all) == all

Dedup(all) == DedupFrom(all, {})

\* The pages the upstream may serve.
Url(i) == <<"u", i>>

Priced(i, price, shipping) ==
    Item(Some("Carhartt J02"), Some(Url(i)), Some(Some(price)), shipping)

Unpriced(i) == Item(Some("Carhartt J03"), Some(Url(i)), Some(None), None)

\* A page with four listings, the "Shop on eBay" placeholder and an entry
\* without a price element.
HtmlA ==
    << Item(Some("New Listing Carhartt J01"), Some(<<" ">> \o Url("1")), Some(Some(10000)), Some(1000)),
       Item(Some("Shop on eBay"), Some(Url("9")), Some(Some(100)), None),
       Priced("2", 20000, Some(0)),
       Item(Some("Carhartt J02"), Some(Url("8")), None, None),
       Priced("3", 20000, None),
       Priced("4", 40000, None) >>

\* A page on which no listing has a price the parser finds; its first url is
\* also on HtmlA, and its last entry repeats it.
HtmlB ==
    << Unpriced("2"),
       Unpriced("5"),
       Item(None, Some(Url("1")), Some(Some(500)), None),
       Unpriced("6"),
       Unpriced("2") >>

Bodies == {HtmlA, HtmlB}

\* ------------------------------------------------------------------ state

VARIABLES
    profiles,           \* load_profiles' result: the override profiles
    installed_builders, \* the feature names bs4 resolves to a tree builder
    cache,              \* the cache directory: cache key -> None or the record
    clock,              \* the number of cache writes so far (orders cached_at)
    db,                 \* the persistent store: rows inserted so far
    pc,                 \* "idle", "get" (session.get is in flight) or "done"
    caller,             \* who runs the fetcher: "estimate", "cli" or "fetch_html"
    req,                \* the parsed arguments of the request in progress
    page,               \* scrape_ebay_sold: p
    all_comps,          \* scrape_ebay_sold: all_comps
    comps,              \* estimate: what scrape_ebay_sold returned (None before)
    delay,              \* scrape_ebay_sold: delay, in tenths of a second
    scrape_log,         \* scrape_ebay_sold: its fetches, parses and sleeps
    attempt,            \* fetch_html: attempt
    last_status,        \* fetch_html: last_status
    max_retries,        \* fetch_html: max_retries
    url,                \* fetch_html: url
    fetch_log,          \* fetch_html: the requests and sleeps of this call
    fetch_result,       \* what the last fetch_html call returned or raised
    ops,                \* store accesses of the request in progress
    resp,               \* the response to the request in progress
    call,               \* a function called on its own: its name and arguments
    ret,                \* None, or Some(what that call returned)
    slot,               \* the cache file of one query: None, or Some(its pieces)
    writers,            \* the write_cache calls of two concurrent estimations
    observed            \* None, or Some(what the last read of the file got)

vars ==
    <<profiles, installed_builders, cache, clock, db, pc, caller, req, page,
      delay, all_comps, comps, scrape_log, attempt, last_status, max_retries, url, fetch_log,
      fetch_result, ops, resp, call, ret, slot, writers, observed>>

\* The variables of the web application.
app_vars ==
    <<profiles, installed_builders, cache, clock, db, pc, caller, req, page,
      delay, all_comps, comps, scrape_log, attempt, last_status, max_retries, url, fetch_log,
      fetch_result, ops, resp>>

\* The state as one record, so that a handler is a function from state to state.
Cur ==
    [profiles |-> profiles, installed_builders |-> installed_builders,
     cache |-> cache, clock |-> clock, db |-> db, pc |-> pc,
     caller |-> caller, req |-> req, page |-> page, delay |-> delay,
     all_comps |-> all_comps, comps |-> comps,
     scrape_log |-> scrape_log, attempt |-> attempt, last_status |-> last_status,
     max_retries |-> max_retries, url |-> url, fetch_log |-> fetch_log,
     fetch_result |-> fetch_result, ops |-> ops, resp |-> resp]

Install(n) ==
    /\ profiles' = n.profiles
    /\ installed_builders' = n.installed_builders
    /\ cache' = n.cache
    /\ clock' = n.clock
    /\ db' = n.db
    /\ pc' = n.pc
    /\ caller' = n.caller
    /\ req' = n.req
    /\ page' = n.page
    /\ delay' = n.delay
    /\ all_comps' = n.all_comps
    /\ comps' = n.comps
    /\ scrape_log' = n.scrape_log
    /\ attempt' = n.attempt
    /\ last_status' = n.last_status
    /\ max_retries' = n.max_retries
    /\ url' = n.url
    /\ fetch_log' = n.fetch_log
    /\ fetch_result' = n.fetch_result
    /\ ops' = n.ops
    /\ resp' = n.resp
    /\ UNCHANGED <<call, ret, slot, writers, observed>>

\* ---------------------------------------------------------------- inputs

QueryJx == <<"J", "x">>

QueryK == <<"k">>

\* request.args.get("query"): missing, blank, or a query (with stray blanks).
QueryArgs == {None, Some(<<" ">>), Some(<<" ">> \o QueryJx), Some(QueryK)}

\* The queries that pass the handlers' emptiness check: the cache keys.
Queries == {QueryJx, QueryK}

\* A numeric argument as sent: its text is a number (v) or is not.
Num(v) == [numeric |-> TRUE, v |-> v]

NotANumber == [numeric |-> FALSE, v |-> 0]

PagesArgs == {Some(Num(0)), Some(Num(2)), Some(Num(5)), Some(NotANumber)}

AskingArgs == {None, Some(Num(7000)), Some(Num(13000))}

\* A flag as sent: missing (the handler's default applies) or a word.
ShippingArgs == {None, Some(<<"Y", " ">>)}

UseCacheArgs == {None, Some(<<"0">>)}

CacheFirstArgs == {None, Some(<<"O", "n">>)}

\* The parsed models.json the program starts with: its first key matches the
\* query "k" exactly and supplies nothing, its second is a substring of "Jx".
ModelsJson ==
    << [k |-> <<"K">>, casp |-> None, accuracy_pct |-> None],
       [k |-> <<" ", "J">>, casp |-> None, accuracy_pct |-> Some(73)],
       [k |-> <<"x">>, casp |-> Some(5000), accuracy_pct |-> None] >>

\* The comps lists POSTed to /seed.
SeedComp(price) ==
    [title |-> "Carhartt J01", price |-> price, shipping |-> None, url |-> Url("1")]

SeedLists ==
    { <<>>,
      << SeedComp(Some(15000)), SeedComp(None), SeedComp(Some(-100)), SeedComp(Some(25000)) >> }

\* ---------------------------------------------------------------- cache.py

\* _safe_key: the first 16 hex digits of the query's SHA-256, which tells the
\* model's queries apart; the key is held as the query it is the digest of.
safe_key(query) == query

\* write_cache: the file is replaced by {query, cached_at, payload}.
write_cache(s, query, payload) ==
    [s EXCEPT !.cache[safe_key(query)] =
                  Some([query |-> query, cached_at |-> s.clock + 1, payload |-> payload]),
              !.clock = @ + 1,
              !.ops.cache_writes = @ + 1]

\* read_cache: None without a file, else the record stored.
read_cache(s, query) == s.cache[safe_key(query)]

\* `cached and cached.get("payload")`
Servable(cached) ==
    /\ ~IsNone(cached)
    /\ "payload" \in DOMAIN Val(cached)
    /\ Val(cached).payload # EmptyDict

\* ------------------------------------------------------------------- db.py

insert_estimate(s) ==
    [s EXCEPT !.db.estimates = @ + 1, !.ops.db_writes = @ + 1]

insert_comps(s, rows) ==
    [s EXCEPT !.db.comps = @ + Len(rows), !.ops.db_writes = @ + 1]

\* ------------------------------------------------------- main.py: helpers

TruthyWords ==
    { <<"1">>, <<"t","r","u","e">>, <<"y","e","s">>, <<"y">>, <<"o","n">> }

\* `x or d` on an optional string: None and "" are falsy.
OrElse(x, d) == IF IsNone(x) \/ Val(x) = <<>> THEN d ELSE Val(x)

\* _parse_bool on the word it is given (the handler passes `arg or default`).
parse_bool(word) == Lower(Strip(word)) \in TruthyWords

\* _parse_float: None for a missing or non-numeric argument.
parse_float(x) ==
    IF IsNone(x) THEN None
    ELSE IF Val(x).numeric THEN Some(Val(x).v) ELSE None

JsonResp(status, body) == [kind |-> "json", status |-> status, body |-> body]

\* An exception no handler catches: the framework's 500, not a JSON result.
RawException(exc) == [kind |-> "exception", status |-> 500, body |-> [exc |-> exc]]

NoResp == [kind |-> "none", status |-> 0, body |-> EmptyDict]

\* request.args of a request: each argument absent or the string given.
Args(qa, pa, sa, ua, ca, aa) ==
    [query |-> qa, pages |-> pa, include_shipping |-> sa, use_cache |-> ua,
     cache_first |-> ca, asking |-> aa]

NoReq ==
    [args |-> Args(None, None, None, None, None, None),
     query |-> <<>>, pages |-> 0, include_shipping |-> FALSE, use_cache |-> FALSE,
     cache_first |-> FALSE, asking |-> None]

NoFetchResult == [kind |-> "none", error |-> None]

NoOps == [cache_reads |-> 0, cache_writes |-> 0, db_writes |-> 0, gets |-> 0]

\* fetch_html's default max_retries.
DefaultMaxRetries == 2

\* The delay estimate passes to scrape_ebay_sold, in tenths of a second.
EstimateDelay == 5

\* pages = max(1, min(pages, 3))
MinPages == 1

MaxPages == 3

\* sample[:5]
SampleSize == 5

\* ------------------------------------------------- main.py: estimate, tail

\* Variant: the live result is returned without being written to the cache.
estimate_compute_not_persisting(s, unique) ==
    LET summary_dict == summarize_prices(comps_to_prices(unique, s.req.include_shipping))
        public == build_public_payload(summary_dict.median, summary_dict.confidence,
                                       s.req.asking)
        payload == [n |-> summary_dict.n,
                    public |-> Some(public),
                    summary |-> Some(summary_dict),
                    sample |-> Take(unique, SampleSize)]
    IN  [insert_estimate([s EXCEPT !.comps = Some(unique)]) EXCEPT
            !.pc = "done",
            !.resp = JsonResp(200,
                DictUpdate([ok |-> TRUE, platform |-> "ebay", query |-> s.req.query,
                            from_cache |-> FALSE,
                            include_shipping |-> s.req.include_shipping],
                           payload))]

\* Lines 238-278: the collection returned comps.  The manual override of
\* lines 245-251 is skipped: model_profiles defines no
\* get_manual_casp_for_query, so the import of lines 18-21 leaves it None.
estimate_compute(s, unique) ==
    LET prices == comps_to_prices(unique, s.req.include_shipping)
        summary_dict == summarize_prices(prices)
        casp == summary_dict.median
        public == build_public_payload(casp, summary_dict.confidence, s.req.asking)
        payload == [n |-> summary_dict.n,
                    public |-> Some(public),
                    summary |-> Some(summary_dict),
                    sample |-> Take(unique, SampleSize)]
        s1 == write_cache([s EXCEPT !.comps = Some(unique)], s.req.query, payload)
        s2 == insert_estimate(s1)
        body == DictUpdate([ok |-> TRUE,
                            platform |-> "ebay",
                            query |-> s.req.query,
                            from_cache |-> FALSE,
                            include_shipping |-> s.req.include_shipping],
                           payload)
    IN  [s2 EXCEPT !.resp = JsonResp(200, body), !.pc = "done"]

\* The terminal failure of lines 224-236.
Unavailable(s, e) ==
    JsonResp(503,
        [ok |-> FALSE,
         platform |-> "ebay",
         query |-> s.req.query,
         n |-> 0,
         public |-> None,
         summary |-> None,
         sample |-> <<>>,
         reason |-> e,
         hint |-> "Try again later, or reduce pages. eBay sometimes rate-limits automated requests."])

\* Variant: the except branch never looks at the cache.
estimate_on_fetch_error_ignoring_cache(s, e) ==
    [s EXCEPT !.pc = "done", !.resp = Unavailable(s, e)]

\* Variant: without a cache record the except branch answers with an estimate
\* built from nothing instead of the unavailable result.
estimate_on_fetch_error_fabricating(s, e) ==
    LET cached == IF s.req.use_cache THEN read_cache(s, s.req.query) ELSE None
    IN  IF Servable(cached) THEN estimate_on_fetch_error_ignoring_cache(s, e)
        ELSE [s EXCEPT
                !.pc = "done",
                !.resp = JsonResp(200,
                    [ok |-> TRUE, platform |-> "ebay", query |-> s.req.query,
                     from_cache |-> FALSE, n |-> 0,
                     public |-> Some(build_public_payload(Some(5000), 500, s.req.asking)),
                     summary |-> None, sample |-> <<>>, reason |-> e])]

\* Variant: the cache fallback stores the record it serves once more, under a
\* new cached_at.
estimate_on_fetch_error_touching_cache(s, e) ==
    LET cached == IF s.req.use_cache THEN read_cache(s, s.req.query) ELSE None
        s1 == IF s.req.use_cache THEN [s EXCEPT !.ops.cache_reads = @ + 1] ELSE s
    IN  IF Servable(cached)
        THEN [write_cache(s1, s.req.query, Val(cached).payload) EXCEPT
                !.pc = "done",
                !.resp = JsonResp(200,
                    DictUpdate([ok |-> TRUE,
                                platform |-> "ebay",
                                query |-> s.req.query,
                                from_cache |-> TRUE,
                                cached_at |-> Val(cached).cached_at,
                                include_shipping |-> s.req.include_shipping,
                                note |-> "Live scrape failed; served last cached result.",
                                reason |-> e],
                               Val(cached).payload))]
        ELSE [s1 EXCEPT !.pc = "done", !.resp = Unavailable(s, e)]

\* Lines 206-236: scrape_ebay_sold raised RuntimeError e; reason is str(e).
estimate_on_fetch_error(s, e) ==
    LET cached == IF s.req.use_cache THEN read_cache(s, s.req.query) ELSE None
        s1 == IF s.req.use_cache THEN [s EXCEPT !.ops.cache_reads = @ + 1] ELSE s
    IN  IF Servable(cached)
        THEN [s1 EXCEPT
                !.pc = "done",
                !.resp = JsonResp(200,
                    DictUpdate([ok |-> TRUE,
                                platform |-> "ebay",
                                query |-> s.req.query,
                                from_cache |-> TRUE,
                                cached_at |-> Val(cached).cached_at,
                                include_shipping |-> s.req.include_shipping,
                                note |-> "Live scrape failed; served last cached result.",
                                reason |-> e],
                               Val(cached).payload))]
        ELSE [s1 EXCEPT !.pc = "done", !.resp = Unavailable(s, e)]

\* ----------------------------------------- scrape_ebay.py: the command line

\* What the command prints on standard output before it exits normally.
Printed(out) == [kind |-> "stdout", status |-> 0, body |-> [out |-> out]]

\* The command ends with an uncaught exception.
CliRaised(exc) == [kind |-> "exception", status |-> 1, body |-> [exc |-> exc]]

\* Lines 205-208 of main(): the comps are cut to --limit when it is positive
\* and printed.
cli_print(s, unique) ==
    LET limit == s.req.args.limit
        shown == IF limit # 0 /\ limit > 0 THEN Take(unique, limit) ELSE unique
    IN  [s EXCEPT !.comps = Some(shown), !.pc = "done", !.resp = Printed(shown)]

\* Lines 199-203 of main(): RuntimeError prints [] under --fail-soft and is
\* raised again without it.
cli_on_fetch_error(s, e) ==
    IF s.req.args.fail_soft
    THEN [s EXCEPT !.pc = "done", !.resp = Printed(<<>>)]
    ELSE [s EXCEPT !.pc = "done", !.resp = CliRaised("RuntimeError")]

\* ------------------------------------------- scrape_ebay.py: the call chain

\* scrape_ebay_sold returns unique to the code that called it.
scrape_return(s, unique) ==
    IF s.caller = "cli" THEN cli_print(s, unique) ELSE estimate_compute(s, unique)

\* scrape_ebay_sold lets RuntimeError e through to the code that called it.
scrape_raise(s, e) ==
    IF s.caller = "cli" THEN cli_on_fetch_error(s, e) ELSE estimate_on_fetch_error(s, e)

\* An entry of scrape_log: the fetch or the parse of a page, or the sleep after
\* it (v: its length in tenths of a second).
ScrapeEvent(t, p, v) == [t |-> t, page |-> p, v |-> v]

\* fetch_html is entered: the first session.get is issued.
start_fetch(s, u, mr) ==
    [s EXCEPT !.url = u, !.max_retries = mr, !.attempt = 1, !.last_status = None,
              !.fetch_log = <<>>, !.pc = "get"]

\* Variant: the pacing sleep is made after the last page as well.
scrape_after_fetch_sleeping_after_last(s, html) ==
    IF ParserFeature \notin s.installed_builders
    THEN [s EXCEPT !.pc = "done", !.resp = RawException("FeatureNotFound")]
    ELSE
      LET all2 == s.all_comps \o ExtractAll(html)
          parsed == Append(s.scrape_log, ScrapeEvent("parse", s.page, 0))
      IN  IF s.page # s.req.pages
          THEN start_fetch(
                 [s EXCEPT !.all_comps = all2,
                           !.page = @ + 1,
                           !.scrape_log = parsed \o
                               << ScrapeEvent("sleep", s.page, s.delay),
                                  ScrapeEvent("fetch", s.page + 1, 0) >>],
                 build_sold_search_url(s.req.query, s.page + 1), DefaultMaxRetries)
          ELSE scrape_return(
                 [s EXCEPT !.all_comps = all2,
                           !.scrape_log = Append(parsed, ScrapeEvent("sleep", s.page, s.delay))],
                 Dedup(all2))

\* scrape_ebay_sold from line 171 on, fetch_html having returned html for page p:
\* parse, extend, then pace and fetch the next page, or dedup and return.
\* BeautifulSoup raises FeatureNotFound (a ValueError) when no tree builder
\* answers to the features string; estimate catches RuntimeError only.
scrape_after_fetch(s, html) ==
    IF ParserFeature \notin s.installed_builders
    THEN [s EXCEPT !.pc = "done", !.resp = RawException("FeatureNotFound")]
    ELSE
      LET all2 == s.all_comps \o ExtractAll(html)
          parsed == Append(s.scrape_log, ScrapeEvent("parse", s.page, 0))
      IN  IF s.page # s.req.pages
          THEN start_fetch(
                 [s EXCEPT !.all_comps = all2,
                           !.page = @ + 1,
                           !.scrape_log = parsed \o
                               << ScrapeEvent("sleep", s.page, s.delay),
                                  ScrapeEvent("fetch", s.page + 1, 0) >>],
                 build_sold_search_url(s.req.query, s.page + 1), DefaultMaxRetries)
          ELSE scrape_return(
                 [s EXCEPT !.all_comps = all2, !.scrape_log = parsed], Dedup(all2))

\* fetch_html returns r.text.
fetch_return(s, html) ==
    LET s1 == [s EXCEPT !.fetch_result = [kind |-> "body", error |-> None]]
    IN  IF s.caller = "fetch_html" THEN [s1 EXCEPT !.pc = "done"]
        ELSE scrape_after_fetch(s1, html)

\* Variant: scrape_ebay_sold hands a page whose fetch failed to fetch_html a
\* second time before it lets the error through.
fetch_raise_retrying_page(s, e) ==
    LET s1 == [s EXCEPT !.fetch_result = [kind |-> "raise", error |-> Some(e)]]
        tried == {i \in DOMAIN s.scrape_log :
                     s.scrape_log[i].t = "fetch" /\ s.scrape_log[i].page = s.page}
    IN  IF s.caller = "fetch_html" THEN [s1 EXCEPT !.pc = "done"]
        ELSE IF Cardinality(tried) = 1
        THEN start_fetch(
               [s EXCEPT !.scrape_log = Append(@, ScrapeEvent("fetch", s.page, 0))],
               s.url, DefaultMaxRetries)
        ELSE scrape_raise(s1, e)

\* Variant: scrape_ebay_sold swallows the error of a later page and returns
\* the listings of the pages it has.
fetch_raise_fail_soft(s, e) ==
    LET s1 == [s EXCEPT !.fetch_result = [kind |-> "raise", error |-> Some(e)]]
    IN  IF s.caller = "fetch_html" THEN [s1 EXCEPT !.pc = "done"]
        ELSE IF s.all_comps # <<>> THEN scrape_return(s1, Dedup(s.all_comps))
        ELSE scrape_raise(s1, e)

\* fetch_html raises RuntimeError e, which scrape_ebay_sold lets through.
fetch_raise(s, e) ==
    LET s1 == [s EXCEPT !.fetch_result = [kind |-> "raise", error |-> Some(e)]]
    IN  IF s.caller = "fetch_html" THEN [s1 EXCEPT !.pc = "done"]
        ELSE scrape_raise(s1, e)

\* "eBay request error: {e}"
RequestError == [prefix |-> "eBay request error", status |-> None, url |-> None]

\* "eBay request failed: {last_status} for {url}"
RequestFailed(status, u) == [prefix |-> "eBay request failed", status |-> status, url |-> Some(u)]

GetEvent(a, v) == [t |-> "get", attempt |-> a, v |-> v]

SleepEvent(a, secs) == [t |-> "sleep", attempt |-> a, v |-> secs]

\* Variant: the sleep is made after the last attempt as well.
on_request_exception_sleeping_last(s) ==
    LET s1 == [s EXCEPT !.fetch_log = Append(@, GetEvent(s.attempt, 0)),
                        !.ops.gets = @ + 1]
        s2 == [s1 EXCEPT !.fetch_log =
                   Append(@, SleepEvent(s.attempt, Min2(Pow2(s.attempt), 6)))]
    IN  IF s.attempt # s.max_retries
        THEN [s2 EXCEPT !.attempt = @ + 1]
        ELSE fetch_raise(s2, RequestError)

\* Lines 99-103: session.get raised requests.RequestException.
on_request_exception(s) ==
    LET s1 == [s EXCEPT !.fetch_log = Append(@, GetEvent(s.attempt, 0)),
                        !.ops.gets = @ + 1]
    IN  IF s.attempt # s.max_retries
        THEN [s1 EXCEPT !.fetch_log = Append(@, SleepEvent(s.attempt, Min2(Pow2(s.attempt), 6))),
                        !.attempt = @ + 1]
        ELSE fetch_raise(s1, RequestError)

\* Variant: the loop runs one attempt more than max_retries.
on_response_one_more(s, st, html) ==
    LET s1 == [s EXCEPT !.fetch_log = Append(@, GetEvent(s.attempt, st)),
                        !.ops.gets = @ + 1,
                        !.last_status = Some(st)]
    IN  IF st = 200 THEN fetch_return(s1, html)
        ELSE IF st \in RetryableStatuses
        THEN LET s2 == [s1 EXCEPT !.fetch_log =
                            Append(@, SleepEvent(s.attempt, Min2(Pow2(s.attempt), 8)))]
             IN  IF s.attempt <= s.max_retries
                 THEN [s2 EXCEPT !.attempt = @ + 1]
                 ELSE fetch_raise(s2, RequestFailed(Some(st), s.url))
        ELSE fetch_raise(s1, RequestFailed(Some(st), s.url))

\* Variant: every status but 200 is slept on and retried.
on_response_retrying_all(s, st, html) ==
    LET s1 == [s EXCEPT !.fetch_log = Append(@, GetEvent(s.attempt, st)),
                        !.ops.gets = @ + 1,
                        !.last_status = Some(st)]
        s2 == [s1 EXCEPT !.fetch_log =
                   Append(@, SleepEvent(s.attempt, Min2(Pow2(s.attempt), 8)))]
    IN  IF st = 200 THEN fetch_return(s1, html)
        ELSE IF s.attempt < s.max_retries THEN [s2 EXCEPT !.attempt = @ + 1]
        ELSE fetch_raise(s2, RequestFailed(Some(st), s.url))

\* Lines 105-117: session.get answered with status code st and text html.
on_response(s, st, html) ==
    LET s1 == [s EXCEPT !.fetch_log = Append(@, GetEvent(s.attempt, st)),
                        !.ops.gets = @ + 1,
                        !.last_status = Some(st)]
    IN  IF st = 200 THEN fetch_return(s1, html)
        ELSE IF st \in RetryableStatuses
        THEN LET s2 == [s1 EXCEPT !.fetch_log =
                            Append(@, SleepEvent(s.attempt, Min2(Pow2(s.attempt), 8)))]
             IN  IF s.attempt < s.max_retries
                 THEN [s2 EXCEPT !.attempt = @ + 1]
                 ELSE fetch_raise(s2, RequestFailed(Some(st), s.url))
        ELSE fetch_raise(s1, RequestFailed(Some(st), s.url))

\* scrape_ebay_sold(query, pages, delay) is entered with pages >= 1: page 1 is
\* fetched.
start_scrape(s, query, pages, dly) ==
    start_fetch([s EXCEPT !.page = 1, !.all_comps = <<>>, !.delay = dly,
                          !.scrape_log = << ScrapeEvent("fetch", 1, 0) >>],
                build_sold_search_url(query, 1), DefaultMaxRetries)

\* scrape_ebay_sold(query, pages, delay) is entered with pages < 1:
\* range(1, pages + 1) is empty, nothing is fetched and unique is [].
scrape_nothing(s, query, pages, dly) ==
    scrape_return([s EXCEPT !.all_comps = <<>>, !.delay = dly], Dedup(<<>>))

NoUrl == [nkw |-> <<>>, pgn |-> 0]

\* The per-request state as a request finds it.
FreshRequest(s) ==
    [s EXCEPT !.req = NoReq, !.ops = NoOps, !.resp = NoResp, !.page = 0, !.delay = 0,
              !.all_comps = <<>>, !.comps = None, !.scrape_log = <<>>, !.attempt = 0,
              !.last_status = None, !.max_retries = 0, !.url = NoUrl,
              !.fetch_log = <<>>, !.fetch_result = NoFetchResult]

\* ------------------------------------------------- main.py: estimate, head

\* Variant: the cache-first answer carries the public estimate as it was
\* stored, whatever asking price this request gives.
cache_first_response_stored(s, cached) ==
    JsonResp(200,
        DictUpdate([ok |-> TRUE,
                    platform |-> "ebay",
                    query |-> s.req.query,
                    from_cache |-> TRUE,
                    cached_at |-> Val(cached).cached_at,
                    include_shipping |-> s.req.include_shipping,
                    note |-> "Served cached result (cache_first=true)."],
                   Val(cached).payload))

\* Variant: the cache-first answer is tagged as a live one.
cache_first_response_untagged(s, cached) ==
    LET payload == Val(cached).payload
        pub0 == IF IsNone(DictGet(payload, "public")) THEN EmptyDict
                ELSE Val(payload.public)
        casp == DictGet(pub0, "casp")
        conf == IF ~IsNone(DictGet(pub0, "confidence_raw")) /\ Val(pub0.confidence_raw) # 0
                THEN Val(pub0.confidence_raw)
                ELSE IF IsNone(DictGet(payload, "summary")) THEN 0
                ELSE Val(payload.summary).confidence
        payload2 == IF ~IsNone(casp) /\ ~IsNone(s.req.asking)
                    THEN [payload EXCEPT !.public =
                             Some(build_public_payload(casp, conf, s.req.asking))]
                    ELSE payload
    IN  JsonResp(200,
            DictUpdate([ok |-> TRUE,
                        platform |-> "ebay",
                        query |-> s.req.query,
                        from_cache |-> FALSE,
                        cached_at |-> Val(cached).cached_at,
                        include_shipping |-> s.req.include_shipping,
                        note |-> "Served cached result (cache_first=true)."],
                       payload2))

\* Lines 178-201: the cache-first answer from the record read.
cache_first_response(s, cached) ==
    LET payload == Val(cached).payload
        pub0 == IF IsNone(DictGet(payload, "public")) THEN EmptyDict
                ELSE Val(payload.public)
        casp == DictGet(pub0, "casp")
        conf == IF ~IsNone(DictGet(pub0, "confidence_raw")) /\ Val(pub0.confidence_raw) # 0
                THEN Val(pub0.confidence_raw)
                ELSE IF IsNone(DictGet(payload, "summary")) THEN 0
                ELSE Val(payload.summary).confidence
        payload2 == IF ~IsNone(casp) /\ ~IsNone(s.req.asking)
                    THEN [payload EXCEPT !.public =
                             Some(build_public_payload(casp, conf, s.req.asking))]
                    ELSE payload
    IN  JsonResp(200,
            DictUpdate([ok |-> TRUE,
                        platform |-> "ebay",
                        query |-> s.req.query,
                        from_cache |-> TRUE,
                        cached_at |-> Val(cached).cached_at,
                        include_shipping |-> s.req.include_shipping,
                        note |-> "Served cached result (cache_first=true)."],
                       payload2))

\* Variant: cache_first alone decides whether the cache is tried first,
\* whatever use_cache says.
estimate_begin_cache_first_alone(s, qa, pa, sa, ua, ca, aa) ==
    LET s0 == [FreshRequest(s) EXCEPT !.caller = "estimate"]
        query == Strip(OrElse(qa, <<>>))
        include_shipping == parse_bool(OrElse(sa, <<"f","a","l","s","e">>))
        use_cache == parse_bool(OrElse(ua, <<"t","r","u","e">>))
        cache_first == parse_bool(OrElse(ca, <<"f","a","l","s","e">>))
        asking == parse_float(aa)
    IN  IF ~IsNone(pa) /\ ~Val(pa).numeric
        THEN [s0 EXCEPT !.req.args = Args(qa, pa, sa, ua, ca, aa),
                        !.req.query = query, !.pc = "done",
                        !.resp = RawException("ValueError")]
        ELSE
          LET pages0 == IF IsNone(pa) THEN 1 ELSE Val(pa).v
              r0 == [args |-> Args(qa, pa, sa, ua, ca, aa),
                     query |-> query, pages |-> pages0,
                     include_shipping |-> include_shipping, use_cache |-> use_cache,
                     cache_first |-> cache_first, asking |-> asking]
          IN  IF query = <<>>
              THEN [s0 EXCEPT !.req = r0, !.pc = "done",
                              !.resp = JsonResp(400,
                                  [ok |-> FALSE, error |-> "Missing required ?query=..."])]
              ELSE
                LET r == [r0 EXCEPT !.pages = Max2(MinPages, Min2(pages0, MaxPages))]
                    s1 == [s0 EXCEPT !.req = r]
                    cached == read_cache(s1, query)
                    s2 == [s1 EXCEPT !.ops.cache_reads = @ + 1]
                IN  IF cache_first
                    THEN IF Servable(cached)
                         THEN [s2 EXCEPT !.pc = "done",
                                         !.resp = cache_first_response(s2, cached)]
                         ELSE start_scrape(s2, query, r.pages, EstimateDelay)
                    ELSE start_scrape(s1, query, r.pages, EstimateDelay)

\* Lines 161-205: the arguments are read, the query is checked, pages is
\* clamped, the cache is tried first when asked, else the collection starts.
\* int() of a non-numeric pages raises ValueError before the query is looked at.
estimate_begin(s, qa, pa, sa, ua, ca, aa) ==
    LET s0 == [FreshRequest(s) EXCEPT !.caller = "estimate"]
        query == Strip(OrElse(qa, <<>>))
        include_shipping == parse_bool(OrElse(sa, <<"f","a","l","s","e">>))
        use_cache == parse_bool(OrElse(ua, <<"t","r","u","e">>))
        cache_first == parse_bool(OrElse(ca, <<"f","a","l","s","e">>))
        asking == parse_float(aa)
    IN  IF ~IsNone(pa) /\ ~Val(pa).numeric
        THEN [s0 EXCEPT !.req.args = Args(qa, pa, sa, ua, ca, aa),
                        !.req.query = query, !.pc = "done",
                        !.resp = RawException("ValueError")]
        ELSE
          LET pages0 == IF IsNone(pa) THEN 1 ELSE Val(pa).v
              r0 == [args |-> Args(qa, pa, sa, ua, ca, aa),
                     query |-> query, pages |-> pages0,
                     include_shipping |-> include_shipping, use_cache |-> use_cache,
                     cache_first |-> cache_first, asking |-> asking]
          IN  IF query = <<>>
              THEN [s0 EXCEPT !.req = r0, !.pc = "done",
                              !.resp = JsonResp(400,
                                  [ok |-> FALSE, error |-> "Missing required ?query=..."])]
              ELSE
                LET r == [r0 EXCEPT !.pages = Max2(MinPages, Min2(pages0, MaxPages))]
                    s1 == [s0 EXCEPT !.req = r]
                    cached == read_cache(s1, query)
                    s2 == [s1 EXCEPT !.ops.cache_reads = @ + 1]
                IN  IF cache_first /\ use_cache
                    THEN IF Servable(cached)
                         THEN [s2 EXCEPT !.pc = "done",
                                         !.resp = cache_first_response(s2, cached)]
                         ELSE start_scrape(s2, query, r.pages, EstimateDelay)
                    ELSE start_scrape(s1, query, r.pages, EstimateDelay)

\* ----------------------------------------------------------- main.py: seed

\* The loop of lines 104-126: comps without a price or with a price <= 0 are
\* left out.
RECURSIVE CleanSample(_)
CleanSample(cs) ==
    IF cs = <<>> THEN <<>>
    ELSE IF IsNone(Head(cs).price) \/ Val(Head(cs).price) <= 0
    THEN CleanSample(Tail(cs))
    ELSE <<Head(cs)>> \o CleanSample(Tail(cs))

RECURSIVE PricesOf(_)
PricesOf(sample) ==
    IF sample = <<>> THEN <<>> ELSE <<Head(sample).price>> \o PricesOf(Tail(sample))

\* Lines 80-156: POST /seed {query, comps}.  A bad request changes nothing.
\* It is another request than the estimate in progress: ops is not its own.
seed(s, qa, cs) ==
    LET query == Strip(OrElse(qa, <<>>))
        clean_sample == CleanSample(cs)
        summary_dict == summarize_prices(PricesOf(clean_sample))
        casp == summary_dict.median
        public == build_public_payload(casp, summary_dict.confidence, None)
        payload == [n |-> summary_dict.n,
                    public |-> Some(public),
                    summary |-> Some(summary_dict),
                    sample |-> Take(clean_sample, SampleSize)]
        s1 == insert_estimate(insert_comps(write_cache(s, query, payload), clean_sample))
    IN  IF query = <<>> THEN s ELSE [s1 EXCEPT !.ops = s.ops]

\* ----------------------------------------------- scrape_ebay.py: main()

\* The --pages values the command is run with (argparse takes any int).
CliPagesArgs == {0, 2, 4}

\* The --limit values the command is run with.
CliLimitArgs == {0, 1}

\* The default of --delay, in tenths of a second.
CliDelay == 10

\* Lines 187-198: the arguments are parsed and scrape_ebay_sold is called
\* with args.pages as given; its loop over range(1, pages + 1) has a first
\* page or is empty.
cli_main(s, query, pages, limit, fail_soft) ==
    LET s0 == [FreshRequest(s) EXCEPT !.caller = "cli"]
        r == [NoReq EXCEPT
                !.args = [query |-> query, pages |-> pages, delay |-> CliDelay,
                          limit |-> limit, fail_soft |-> fail_soft],
                !.query = query,
                !.pages = pages]
    IN  IF pages < 1
        THEN scrape_nothing([s0 EXCEPT !.req = r], query, pages, CliDelay)
        ELSE start_scrape([s0 EXCEPT !.req = r], query, pages, CliDelay)

\* ---------------------------------------------------------------- actions

\* GET /estimate arrives (requests are served one after the other).
Estimate ==
    /\ pc = "idle"
    /\ clock < MaxClock
    /\ \E qa \in QueryArgs, pa \in PagesArgs, sa \in ShippingArgs,
          ua \in UseCacheArgs, ca \in CacheFirstArgs, aa \in AskingArgs :
          Install(estimate_begin(Cur, qa, pa, sa, ua, ca, aa))

\* The session.get in flight raises a RequestException.
GetRaises ==
    /\ pc = "get"
    /\ Install(on_request_exception(Cur))

\* The session.get in flight is answered.
GetResponds ==
    /\ pc = "get"
    /\ \E st \in StatusCodes(caller) :
          \E html \in (IF st = 200 THEN Bodies ELSE {<<>>}) :
             LET n == on_response(Cur, st, html)
             IN  n.clock <= MaxClock /\ Install(n)

\* POST /seed arrives (requests are served one after the other).
Seed ==
    /\ pc = "idle"
    /\ clock < MaxClock
    /\ \E qa \in QueryArgs, cs \in SeedLists :
          Install(seed(Cur, qa, cs))

\* fetch_html(url, max_retries = mr) is called on its own.
FetchCall ==
    /\ pc = "idle"
    /\ \E mr \in 1..MaxRetriesArg :
          Install(start_fetch([FreshRequest(Cur) EXCEPT !.caller = "fetch_html"],
                              build_sold_search_url(QueryJx, 1), mr))

\* python scrape_ebay.py QUERY --pages N --limit L [--fail-soft] is run.
CliMain ==
    /\ pc = "idle"
    /\ \E pages \in CliPagesArgs, limit \in CliLimitArgs, fail_soft \in BOOLEAN :
          Install(cli_main(Cur, QueryJx, pages, limit, fail_soft))

\* The handler (or the direct call) returns: the response goes out and the
\* locals of the request are gone.
Return ==
    /\ pc = "done"
    /\ Install([FreshRequest(Cur) EXCEPT !.pc = "idle"])

\* ---------------------------------------- functions called on their own

\* A call of one of the pure functions: its name and its arguments (those of
\* the other functions stay at their defaults).
Call(fn, prices, confidence, n, casp, asking) ==
    [fn |-> fn, prices |-> prices, confidence |-> confidence, n |-> n,
     casp |-> casp, asking |-> asking]

NoCall == Call("none", <<>>, 0, 0, 0, 0)

\* The prices summarize_prices is given, in cents: missing, zero, negative
\* and positive ones.
PriceValues == {None, Some(0), Some(-2), Some(1), Some(2), Some(7)}

\* The lists of at most k prices.
RECURSIVE PriceLists(_)
PriceLists(k) ==
    IF k = 0 THEN {<<>>}
    ELSE LET shorter == PriceLists(k - 1)
         IN  shorter \cup {Append(l, v) : l \in {x \in shorter : Len(x) = k - 1},
                                           v \in PriceValues}

SummarizeCalls == {Call("summarize_prices", l, 0, 0, 0, 0) : l \in PriceLists(MaxPrices)}

AccuracyCalls ==
    {Call("accuracy_pct_from_confidence", <<>>, c, n, 0, 0) :
        c \in (-50)..MaxConfidence, n \in (-1)..MaxN}

DealCalls ==
    {Call("deal_score", <<>>, 0, 0, casp, asking) :
        casp \in (-1)..MaxCasp, asking \in (-1)..MaxAsking}

\* The call returns.
Returns(v) ==
    /\ ret' = Some(v)
    /\ UNCHANGED <<call, slot, writers, observed>>
    /\ UNCHANGED app_vars

ApplySummarize ==
    /\ call.fn = "summarize_prices" /\ IsNone(ret)
    /\ Returns(summarize_prices(call.prices))

ApplyAccuracy ==
    /\ call.fn = "accuracy_pct_from_confidence" /\ IsNone(ret)
    /\ Returns(accuracy_pct_from_confidence(call.confidence, call.n))

ApplyDealScore ==
    /\ call.fn = "deal_score" /\ IsNone(ret)
    /\ Returns(deal_score(call.casp, call.asking))

\* ------------------------------------- cache.py: the file, step by step

\* The estimations that write the cache file of the same query.
Writers == {1, 2}

\* A write_cache call: not started, holding the file open, or returned; the
\* number of pieces of its record and how many of them it has written.
NoWriter == [pc |-> "idle", pos |-> 0, len |-> 0]

\* The i-th piece of the record that estimation w writes.
Chunk(w, i) == [by |-> w, part |-> i]

\* What a write beyond the end of the file leaves in between.
Hole == [by |-> 0, part |-> 0]

\* The record of estimation w as json.dump emits it, in len pieces.
Record(w, len) == [i \in 1..len |-> Chunk(w, i)]

\* A write of chunks at offset pos of a file opened without O_APPEND.
WriteAt(content, pos, chunks) ==
    [i \in 1..Max2(Len(content), pos + Len(chunks)) |->
        IF i > pos /\ i <= pos + Len(chunks) THEN chunks[i - pos]
        ELSE IF i <= Len(content) THEN content[i]
        ELSE Hole]

\* Line 27: open(path, "w") creates the file or truncates it to nothing.
WriterOpens ==
    /\ \E w \in Writers, len \in 1..MaxChunks :
          /\ writers[w].pc = "idle"
          /\ slot' = Some(<<>>)
          /\ writers' = [writers EXCEPT ![w] = [pc |-> "open", pos |-> 0, len |-> len]]
    /\ UNCHANGED <<observed, call, ret>>
    /\ UNCHANGED app_vars

\* Line 28: json.dump writes the record through the buffered file; the next
\* pieces reach the file at this writer's own offset, as many as the buffer
\* lets go at once.
WriterDumps ==
    /\ \E w \in Writers :
          /\ writers[w].pc = "open"
          /\ writers[w].pos < writers[w].len
          /\ \E k \in 1..(writers[w].len - writers[w].pos) :
                /\ slot' = Some(WriteAt(Val(slot), writers[w].pos,
                                        SubSeq(Record(w, writers[w].len),
                                               writers[w].pos + 1, writers[w].pos + k)))
                /\ writers' = [writers EXCEPT ![w].pos = @ + k]
    /\ UNCHANGED <<observed, call, ret>>
    /\ UNCHANGED app_vars

\* The with block of lines 27-28 ends: the file is closed, write_cache returns.
WriterCloses ==
    /\ \E w \in Writers :
          /\ writers[w].pc = "open"
          /\ writers[w].pos = writers[w].len
          /\ writers' = [writers EXCEPT ![w].pc = "closed"]
    /\ UNCHANGED <<slot, observed, call, ret>>
    /\ UNCHANGED app_vars

\* read_cache of another request: no file, or what the file holds now.
ReaderReads ==
    /\ observed' = IF IsNone(slot) THEN Some([exists |-> FALSE, content |-> <<>>])
                   ELSE Some([exists |-> TRUE, content |-> Val(slot)])
    /\ UNCHANGED <<slot, writers, call, ret>>
    /\ UNCHANGED app_vars

\* ------------------------------------------------------- specifications

\* The application after create_app, given the tree builders bs4 has.
InitApp(builders) ==
    /\ profiles = load_profiles(ModelsJson)
    /\ installed_builders = builders
    /\ cache = [k \in Queries |-> None]
    /\ clock = 0
    /\ db = [comps |-> 0, estimates |-> 0]
    /\ pc = "idle"
    /\ caller = "estimate"
    /\ req = NoReq
    /\ page = 0
    /\ delay = 0
    /\ all_comps = <<>>
    /\ comps = None
    /\ scrape_log = <<>>
    /\ attempt = 0
    /\ last_status = None
    /\ max_retries = 0
    /\ url = NoUrl
    /\ fetch_log = <<>>
    /\ fetch_result = NoFetchResult
    /\ ops = NoOps
    /\ resp = NoResp

\* The cache file of the query does not exist and nobody writes it.
InitSlot ==
    /\ slot = None
    /\ writers = [w \in Writers |-> NoWriter]
    /\ observed = None

InitWith(builders) ==
    /\ InitApp(builders)
    /\ call = NoCall
    /\ ret = None
    /\ InitSlot

\* The program as written: no tree builder answers to "lmxl".
Init == InitWith(Bs4Features)

Next == Estimate \/ GetRaises \/ GetResponds \/ Return \/ Seed

Spec == Init /\ [][Next]_vars

\* The program in an environment where a tree builder is registered under the
\* features string parse_sold_results asks for: the code behind line 121 runs.
InitParsed == InitWith(Bs4Features \cup {ParserFeature})

SpecParsed == InitParsed /\ [][Next]_vars

\* fetch_html called on its own, with any max_retries.
NextFetch == FetchCall \/ GetRaises \/ GetResponds \/ Return

SpecFetch == Init /\ [][NextFetch]_vars

\* The command line of scrape_ebay.py, the other caller of scrape_ebay_sold,
\* where the parser's features string resolves.
NextCli == CliMain \/ GetRaises \/ GetResponds \/ Return

SpecCli == InitParsed /\ [][NextCli]_vars

\* summarize_prices, accuracy_pct_from_confidence and deal_score called on
\* their own: the arguments are drawn at the start, the call is then made.
InitPure ==
    /\ InitApp(Bs4Features)
    /\ call \in SummarizeCalls \cup AccuracyCalls \cup DealCalls
    /\ ret = None
    /\ InitSlot

NextPure == ApplySummarize \/ ApplyAccuracy \/ ApplyDealScore

SpecPure == InitPure /\ [][NextPure]_vars

\* Two estimations of one query reach write_cache while requests read the
\* same cache file: the steps of the writes and the reads in any order.
NextConcurrent == WriterOpens \/ WriterDumps \/ WriterCloses \/ ReaderReads

SpecConcurrent == Init /\ [][NextConcurrent]_vars

\* ================================================================ claims

\* An estimate request has its response.
EstimateDone == pc = "done" /\ caller = "estimate"

\* The collection of the request ended in a RuntimeError of fetch_html.
LiveFailed == EstimateDone /\ fetch_result.kind = "raise"

\* The cache holds a record with a payload for the request's query.
RecordExists == Servable(cache[safe_key(req.query)])

\* body carries every field of payload unchanged.
CarriesPayload(body, payload) ==
    \A k \in DOMAIN payload : k \in DOMAIN body /\ body[k] = payload[k]

\* An override profile matches the query and supplies casp or accuracy_pct.
ProfileServes(query) ==
    LET m == match_profile(query, profiles)
    IN  /\ ~IsNone(m)
        /\ ~IsNone(Val(m).casp) \/ ~IsNone(Val(m).accuracy_pct)

\* The explicit unavailable result: ok false, n 0, nothing estimated.
IsUnavailable(r) ==
    /\ r.kind = "json"
    /\ DOMAIN r.body =
         {"ok", "platform", "query", "n", "public", "summary", "sample", "reason", "hint"}
    /\ r.body.ok = FALSE
    /\ r.body.n = 0
    /\ r.body.public = None
    /\ r.body.summary = None
    /\ r.body.sample = <<>>

\* C1: when the live collection fails with a fetch error, caching is enabled
\* and a cache record with a payload exists for the query, the response is
\* ok:true, carries the cached payload, is tagged from_cache and as a
\* live-failure fallback, and has the fetch error as its reason.
C1_CacheFallback ==
    (LiveFailed /\ req.use_cache /\ RecordExists) =>
        /\ resp.kind = "json"
        /\ resp.status = 200
        /\ resp.body.ok = TRUE
        /\ resp.body.from_cache = TRUE
        /\ resp.body.note = "Live scrape failed; served last cached result."
        /\ resp.body.reason = Val(fetch_result.error)
        /\ resp.body.cached_at = Val(cache[safe_key(req.query)]).cached_at
        /\ CarriesPayload(resp.body, Val(cache[safe_key(req.query)]).payload)

\* A fetch exhausted on 503 is answered from a record with a usable estimate.
C1_Witness ==
    /\ LiveFailed /\ req.use_cache /\ RecordExists
    /\ Val(fetch_result.error).status = Some(503)
    /\ resp.body.from_cache = TRUE
    /\ resp.body.n > 0

\* C2: when the live collection fails and neither a cache record nor a
\* matching override profile can serve the query, the response is the
\* unavailable result (ok false, n 0, public and summary empty, no sample)
\* with the failure reason and the retry hint, and no estimate value in it.
C2_Unavailable ==
    (LiveFailed /\ ~(req.use_cache /\ RecordExists) /\ ~ProfileServes(req.query)) =>
        /\ IsUnavailable(resp)
        /\ resp.status = 503
        /\ resp.body.reason = Val(fetch_result.error)
        /\ resp.body.hint # ""

\* With a record in the cache but caching switched off, a 404 ends the
\* request in the unavailable result.
C2_Witness ==
    /\ LiveFailed /\ ~req.use_cache /\ RecordExists /\ ~ProfileServes(req.query)
    /\ Val(fetch_result.error).status = Some(404)
    /\ IsUnavailable(resp)

\* C3 (as claimed): when the live collection fails, no cache record can be
\* served and an override profile matches the query and supplies casp or
\* accuracy_pct, the response is the profile fallback (an estimate from the
\* profile alone, n = 0, no sample), not the terminal failure.
C3_ProfileFallback ==
    (LiveFailed /\ ~(req.use_cache /\ RecordExists) /\ ProfileServes(req.query)) =>
        /\ resp.kind = "json"
        /\ resp.body.ok = TRUE
        /\ resp.body.n = 0
        /\ resp.body.sample = <<>>
        /\ resp.body.public # None

\* The request was answered from the cache on the cache-first path.
ServedCacheFirst(r) ==
    /\ r.kind = "json"
    /\ r.status = 200
    /\ r.body.ok = TRUE
    /\ r.body.from_cache = TRUE
    /\ r.body.note = "Served cached result (cache_first=true)."

\* What the caller asks for, as _parse_bool reads the argument.
AsksCacheFirst(r) == parse_bool(OrElse(r.args.cache_first, <<"f","a","l","s","e">>))

AsksUseCache(r) == parse_bool(OrElse(r.args.use_cache, <<"t","r","u","e">>))

PagesNotAnInteger(r) == ~IsNone(r.args.pages) /\ ~Val(r.args.pages).numeric

\* An estimate request arrives that asks for cache priority, for a query with
\* a cache record.
CacheFirstRequest ==
    /\ pc = "idle" /\ pc' # "idle" /\ caller' = "estimate"
    /\ AsksCacheFirst(req')
    /\ req'.query # <<>>
    /\ Servable(cache[safe_key(req'.query)])

LiveSucceeded == EstimateDone /\ ~IsNone(comps)

\* C5: when the live collection succeeds the response is tagged live and the
\* new cache record is in place when the response is: reading the cache for
\* the query gives a record whose payload (n, summary, public, a sample of at
\* most 5 listings) is the payload returned.
C5_LivePersisted ==
    LiveSucceeded =>
        /\ resp.kind = "json"
        /\ resp.status = 200
        /\ resp.body.ok = TRUE
        /\ resp.body.from_cache = FALSE
        /\ ops.cache_writes = 1
        /\ ~IsNone(read_cache(Cur, req.query))
        /\ LET rec == Val(read_cache(Cur, req.query))
           IN  /\ rec.query = req.query
               /\ DOMAIN rec.payload = {"n", "summary", "public", "sample"}
               /\ CarriesPayload(resp.body, rec.payload)
               /\ Len(rec.payload.sample) <= SampleSize
               /\ rec.payload.sample = Take(Val(comps), SampleSize)

\* A collection of more than five listings with prices succeeded.
C5_Witness ==
    /\ LiveSucceeded
    /\ Len(Val(comps)) > SampleSize
    /\ resp.body.n > 0
    /\ Len(resp.body.sample) = SampleSize

\* C6 (as claimed): every estimate request with a valid query ends in one of
\* the outcomes of the ladder, never in a raw exception.
C6_DefinedOutcome ==
    (EstimateDone /\ req.query # <<>>) =>
        /\ resp.kind = "json"
        /\ \/ IsUnavailable(resp)
           \/ resp.status = 200 /\ resp.body.ok = TRUE

\* The statuses of the requests of the current fetch_html call, in order (0:
\* the request raised).
RECURSIVE GetsOf(_)
GetsOf(log) ==
    IF log = <<>> THEN <<>>
    ELSE IF Head(log).t = "get" THEN <<Head(log).v>> \o GetsOf(Tail(log))
    ELSE GetsOf(Tail(log))

AllRetryable(gets) == \A i \in 1..Len(gets) : gets[i] \in RetryableStatuses

\* C7: if every attempt of a fetch_html call gets a retryable status, the call
\* makes exactly max_retries requests, then raises "request failed" with the
\* status of the last attempt, and returns no body.
C7_Exhausted ==
    (caller = "fetch_html" /\ pc # "idle" /\ AllRetryable(GetsOf(fetch_log))) =>
        LET gets == GetsOf(fetch_log)
        IN  /\ Len(gets) <= max_retries
            /\ fetch_result.kind # "body"
            /\ pc = "done" =>
                 /\ Len(gets) = max_retries
                 /\ fetch_result.kind = "raise"
                 /\ Val(fetch_result.error) = RequestFailed(Some(gets[Len(gets)]), url)
                 /\ last_status = Some(gets[Len(gets)])

\* Three attempts, three retryable statuses, the last one reported.
C7_Witness ==
    /\ caller = "fetch_html" /\ pc = "done" /\ max_retries = 3
    /\ GetsOf(fetch_log) = <<503, 429, 500>>
    /\ Val(fetch_result.error).status = Some(500)

\* C8: a status that is neither 200 nor retryable ends the call at once: no
\* further request, no sleep, and a "request failed" error with that status,
\* which no exhausted run and no transport failure gives.
C8_OtherStatus ==
    caller = "fetch_html" =>
        \A i \in 1..Len(fetch_log) :
            (fetch_log[i].t = "get" /\ fetch_log[i].v \notin RetryableStatuses \cup {0, 200}) =>
                /\ i = Len(fetch_log)
                /\ pc = "done"
                /\ fetch_result.kind = "raise"
                /\ Val(fetch_result.error) = RequestFailed(Some(fetch_log[i].v), url)
                /\ Val(fetch_result.error) # RequestError
                /\ \A r \in RetryableStatuses :
                      Val(fetch_result.error) # RequestFailed(Some(r), url)

\* A 404 on the second of three attempts ends the call.
C8_Witness ==
    /\ caller = "fetch_html" /\ pc = "done" /\ max_retries = 3
    /\ GetsOf(fetch_log) = <<503, 404>>
    /\ fetch_log[Len(fetch_log)].t = "get"
    /\ fetch_result.kind = "raise"

\* C9: if the fetch of a page k fails, the collection fails with that error:
\* estimate gets no listings of the pages before k (it answers from the cache
\* or with the unavailable result), and no page after k is fetched.
C9_AbortWhole ==
    (caller = "estimate" /\ fetch_result.kind = "raise") =>
        /\ pc = "done"
        /\ IsNone(comps)
        /\ scrape_log[Len(scrape_log)] = ScrapeEvent("fetch", page, 0)
        /\ Val(fetch_result.error) \in
             {RequestError, RequestFailed(last_status, build_sold_search_url(req.query, page))}
        /\ resp.kind = "json"
        /\ resp.body.reason = Val(fetch_result.error)
        /\ ops.cache_writes = 0
        /\ \/ IsUnavailable(resp)
           \/ /\ resp.body.from_cache = TRUE
              /\ RecordExists
              /\ CarriesPayload(resp.body, Val(cache[safe_key(req.query)]).payload)

\* Page 2 of 3 fails after page 1 gave listings.
C9_Witness ==
    /\ caller = "estimate" /\ fetch_result.kind = "raise"
    /\ page = 2 /\ req.pages = 3
    /\ Len(all_comps) > 0
    /\ IsUnavailable(resp)

\* The positions of all_comps that hold the first listing with their url.
FirstSeen(all) ==
    {i \in 1..Len(all) : \A j \in 1..(i - 1) : all[j].url # all[i].url}

\* The k-th smallest member of a set of numbers.
Kth(S, k) == CHOOSE i \in S : Cardinality({j \in S : j <= i}) = k

\* C10: the sequence scrape_ebay_sold returns holds each url once, and is the
\* first listing of every url of the pages in page-then-position order.
C10_Dedup ==
    ~IsNone(comps) =>
        LET u == Val(comps)
            first == FirstSeen(all_comps)
        IN  /\ \A i, j \in 1..Len(u) : u[i].url = u[j].url => i = j
            /\ Len(u) = Cardinality(first)
            /\ \A k \in 1..Len(u) : u[k] = all_comps[Kth(first, k)]

\* A url of page 1 comes again on page 2 with another price and is returned
\* once, as page 1 had it.
C10_Witness ==
    /\ ~IsNone(comps)
    /\ page >= 2
    /\ \E i, j \in 1..Len(all_comps) :
          /\ i < j
          /\ all_comps[i].url = all_comps[j].url
          /\ all_comps[i].price # all_comps[j].price
          /\ \E k \in 1..Len(Val(comps)) : Val(comps)[k] = all_comps[i]
    /\ Len(Val(comps)) < Len(all_comps)

\* The function called on its own has returned.
Returned(fn) == call.fn = fn /\ ~IsNone(ret)

\* The positions of a list of prices that hold a price above zero.
PositiveAt(prices) ==
    {i \in 1..Len(prices) : ~IsNone(prices[i]) /\ Val(prices[i]) > 0}

\* C11: for a list with at least one positive price, the summary has
\* min_price <= p25 <= median <= p75 <= max_price and a confidence in [0, 1]
\* (in thousandths: [0, 1000]), on the rounded values it reports.
C11_Ordered ==
    (Returned("summarize_prices") /\ PositiveAt(call.prices) # {}) =>
        LET r == Val(ret)
        IN  /\ Val(r.min_price) <= Val(r.p25)
            /\ Val(r.p25) <= Val(r.median)
            /\ Val(r.median) <= Val(r.p75)
            /\ Val(r.p75) <= Val(r.max_price)
            /\ 0 <= r.confidence /\ r.confidence <= 1000

\* A list with a missing and a non-positive price whose quartiles differ.
C11_Witness ==
    /\ Returned("summarize_prices")
    /\ Cardinality(PositiveAt(call.prices)) >= 3
    /\ Cardinality(PositiveAt(call.prices)) < Len(call.prices)
    /\ Val(Val(ret).min_price) < Val(Val(ret).median)
    /\ Val(Val(ret).median) < Val(Val(ret).p75)
    /\ Val(Val(ret).p75) < Val(Val(ret).max_price)

\* The statistics of a summary.
Statistics == {"median", "trimmed_mean", "p25", "p75", "min_price", "max_price"}

\* C12: n is the number of non-null prices above zero; every statistic is
\* absent and the confidence is 0 exactly when n = 0; with n > 0 every
\* statistic is present and the confidence is above 0; the empty summary
\* gives accuracy_pct 0.
C12_Counts ==
    Returned("summarize_prices") =>
        LET r == Val(ret)
            empty == (\A k \in Statistics : IsNone(r[k])) /\ r.confidence = 0
        IN  /\ r.n = Cardinality(PositiveAt(call.prices))
            /\ empty <=> (r.n = 0)
            /\ r.n > 0 => (\A k \in Statistics : ~IsNone(r[k])) /\ r.confidence > 0
            /\ r.n = 0 => accuracy_pct_from_confidence(r.confidence, r.n) = 0

\* A list of nulls, zeros and negative prices only gives the empty summary.
C12_Witness ==
    /\ Returned("summarize_prices")
    /\ Len(call.prices) >= 3
    /\ \E i, j, k \in 1..Len(call.prices) :
          /\ IsNone(call.prices[i])
          /\ call.prices[j] = Some(0)
          /\ ~IsNone(call.prices[k]) /\ Val(call.prices[k]) < 0
    /\ Val(ret) = EmptySummary

\* C13: accuracy_pct_from_confidence returns a multiple of 10 in [0, 100],
\* 0 when n = 0 and at least 10 when n > 0, whatever the confidence.
C13_Accuracy ==
    Returned("accuracy_pct_from_confidence") =>
        /\ Val(ret) % 10 = 0
        /\ 0 <= Val(ret) /\ Val(ret) <= 100
        /\ call.n = 0 => Val(ret) = 0
        /\ call.n > 0 => Val(ret) >= 10

\* A confidence that quantizes to 0 with a sample gives 10.
C13_Witness ==
    /\ Returned("accuracy_pct_from_confidence")
    /\ call.n > 0
    /\ call.confidence = 49
    /\ Val(ret) = 10

\* C17: for casp > 0 and asking > 0, delta_pct is (casp - asking) / casp * 100
\* to one decimal, the score follows the bands 25, 15, -10, -25, casp 100 and
\* asking 70 give 30 and 5, and no lower asking gives a lower score.
C17_DealScore ==
    (Returned("deal_score") /\ call.casp > 0 /\ call.asking > 0) =>
        LET d == Val(ret)
            casp == call.casp
            delta == call.casp - call.asking
        IN  /\ d.delta = delta
            /\ 2 * Abs(d.delta_pct * casp - 1000 * delta) <= casp
            /\ d.deal_score = 5 <=> 100 * delta >= 25 * casp
            /\ d.deal_score = 4 <=> (100 * delta >= 15 * casp /\ 100 * delta < 25 * casp)
            /\ d.deal_score = 3 <=> (100 * delta >= -10 * casp /\ 100 * delta < 15 * casp)
            /\ d.deal_score = 2 <=> (100 * delta >= -25 * casp /\ 100 * delta < -10 * casp)
            /\ d.deal_score = 1 <=> 100 * delta < -25 * casp
            /\ (casp = 100 /\ call.asking = 70) => (d.delta_pct = 300 /\ d.deal_score = 5)
            /\ \A lower \in 1..(call.asking - 1) :
                  deal_score(casp, lower).deal_score >= d.deal_score

\* casp 100 and asking 70.
C17_Witness ==
    /\ Returned("deal_score")
    /\ call.casp = 100 /\ call.asking = 70
    /\ Val(ret).deal_score = 5
    /\ Val(ret).delta_pct = 300

DealFields == {"deal_score", "deal_label", "delta", "delta_pct"}

\* The public estimate in the response of an estimate request, if it has one.
HasPublic(r) ==
    /\ r.kind = "json"
    /\ "public" \in DOMAIN r.body
    /\ ~IsNone(r.body.public)

C15_AtomicSlot ==
    /\ ~(writers[1].pc = "open" /\ writers[2].pc = "open")
    /\ (~IsNone(observed) /\ Val(observed).exists) =>
          \E w \in Writers, len \in 1..MaxChunks :
             Val(observed).content = Record(w, len)

\* C16 (as claimed): an estimate request whose query is missing or empty
\* after trimming gets a 400-class error whatever its other arguments are,
\* and reads no cache, fetches nothing and writes neither cache nor store.
C16_MissingQuery ==
    (EstimateDone /\ Strip(OrElse(req.args.query, <<>>)) = <<>>) =>
        /\ resp.kind = "json"
        /\ resp.status \in 400..499
        /\ ops = NoOps
        /\ scrape_log = <<>>

\* C18: a transport failure at attempt a < max_retries is followed by a sleep
\* of min(2^a, 6) seconds and then by attempt a + 1; at a = max_retries the
\* call raises the transport error with no sleep and no further request.
C18_TransportBackoff ==
    caller = "fetch_html" =>
        \A i \in 1..Len(fetch_log) :
            (fetch_log[i].t = "get" /\ fetch_log[i].v = 0) =>
                LET a == fetch_log[i].attempt
                IN  IF a < max_retries
                    THEN /\ i < Len(fetch_log)
                         /\ fetch_log[i + 1] = SleepEvent(a, Min2(Pow2(a), 6))
                         /\ IF i + 1 < Len(fetch_log)
                            THEN fetch_log[i + 2].t = "get" /\ fetch_log[i + 2].attempt = a + 1
                            ELSE pc = "get" /\ attempt = a + 1
                    ELSE /\ i = Len(fetch_log)
                         /\ pc = "done"
                         /\ fetch_result = [kind |-> "raise", error |-> Some(RequestError)]

\* Four attempts that all fail in transport: sleeps of 2, 4 and 6 seconds.
C18_Witness ==
    /\ caller = "fetch_html" /\ pc = "done" /\ max_retries = 4
    /\ fetch_log = << GetEvent(1, 0), SleepEvent(1, 2), GetEvent(2, 0), SleepEvent(2, 4),
                      GetEvent(3, 0), SleepEvent(3, 6), GetEvent(4, 0) >>
    /\ Val(fetch_result.error) = RequestError

\* C19 (as claimed): a retryable status at attempt a is followed by a sleep of
\* min(2^a, 8) seconds and then by another request, and every sleep of
\* fetch_html is followed by a further attempt.
C19_RetryableBackoff ==
    caller = "fetch_html" =>
        \A i \in 1..Len(fetch_log) :
            /\ (fetch_log[i].t = "get" /\ fetch_log[i].v \in RetryableStatuses) =>
                  /\ i < Len(fetch_log)
                  /\ fetch_log[i + 1] =
                        SleepEvent(fetch_log[i].attempt, Min2(Pow2(fetch_log[i].attempt), 8))
            /\ fetch_log[i].t = "sleep" =>
                  IF i < Len(fetch_log) THEN fetch_log[i + 1].t = "get"
                  ELSE pc = "get"

\* What a run of scrape_ebay_sold over the pages p..pages does, in order.
RECURSIVE PagesLog(_, _, _)
PagesLog(p, pages, dly) ==
    IF p > pages THEN <<>>
    ELSE << ScrapeEvent("fetch", p, 0), ScrapeEvent("parse", p, 0) >>
         \o (IF p < pages THEN << ScrapeEvent("sleep", p, dly) >> ELSE <<>>)
         \o PagesLog(p + 1, pages, dly)

IsPrefix(a, b) == Len(a) <= Len(b) /\ a = SubSeq(b, 1, Len(a))

\* C20: one scrape_ebay_sold run fetches, then extracts, page 1, 2, .. pages
\* in this order, one at a time, sleeps delay seconds between two pages and
\* not after the last one.
C20_Paced ==
    (caller = "estimate" /\ scrape_log # <<>>) =>
        /\ IsPrefix(scrape_log, PagesLog(1, req.pages, EstimateDelay))
        /\ ~IsNone(comps) => scrape_log = PagesLog(1, req.pages, EstimateDelay)
        /\ pc = "get" => scrape_log[Len(scrape_log)] = ScrapeEvent("fetch", page, 0)

\* A run over three pages: two sleeps, none after page 3.
C20_Witness ==
    /\ caller = "estimate" /\ ~IsNone(comps)
    /\ req.pages = 3
    /\ Len(scrape_log) = 8
    /\ scrape_log[Len(scrape_log)] = ScrapeEvent("parse", 3, 0)
    /\ scrape_log[6] = ScrapeEvent("sleep", 2, EstimateDelay)

\* How often scrape_log records page p being handed to fetch_html.
FetchesOf(log, p) ==
    Cardinality({i \in DOMAIN log : log[i].t = "fetch" /\ log[i].page = p})

\* C21: nothing above fetch_html retries.  Within one estimate request every
\* page is handed to fetch_html at most once (so the collection is started at
\* most once), a failed fetch ends the collection and the request without
\* comps, and the request issues at most pages * max_retries HTTP requests.
C21_NoRetryAbove ==
    caller = "estimate" =>
        /\ \A p \in 1..(MaxPages + 1) : FetchesOf(scrape_log, p) <= 1
        /\ \A i \in DOMAIN scrape_log : scrape_log[i].page \in 1..req.pages
        /\ ops.gets <= req.pages * DefaultMaxRetries
        /\ fetch_result.kind = "raise" => (pc = "done" /\ IsNone(comps))

\* The last of three pages fails after every page used both of its attempts:
\* six requests were issued and the request ended on the fallback ladder.
C21_Witness ==
    /\ EstimateDone /\ fetch_result.kind = "raise"
    /\ req.pages = MaxPages /\ page = MaxPages
    /\ ops.gets = MaxPages * DefaultMaxRetries
    /\ FetchesOf(scrape_log, 1) = 1

\* A step of the estimate handler: the request arrives, or a session.get of
\* its collection ends.
EstimateStep == pc' # "idle" /\ caller' = "estimate"

\* The response is an estimate taken from the cache (either cache path).
FromCache(r) ==
    /\ r.kind = "json"
    /\ "from_cache" \in DOMAIN r.body
    /\ r.body.from_cache = TRUE

\* C22: one estimate request writes the cache at most once, and only when its
\* live collection succeeded.  A step of the request that changes the cache
\* is the one write of a live success and touches the record of the request's
\* query only; a request answered from the cache (cache first, or fallback
\* after a failed collection) or with the unavailable result has written
\* nothing and leaves the cache as it was.
C22_WriteOnce ==
    [][EstimateStep =>
        /\ ops'.cache_writes <= 1
        /\ ops'.cache_writes = 1 => (pc' = "done" /\ ~IsNone(comps') /\ ~FromCache(resp'))
        /\ cache' # cache =>
              /\ ops.cache_writes = 0 /\ ops'.cache_writes = 1
              /\ \A k \in Queries \ {safe_key(req'.query)} : cache'[k] = cache[k]
        /\ (pc' = "done" /\ (FromCache(resp') \/ IsUnavailable(resp'))) =>
              (cache' = cache /\ ops'.cache_writes = 0)
      ]_vars

\* A request whose collection failed has been answered from the cache record
\* of its query: nothing was written and the record is the one served.
C22_Witness ==
    /\ LiveFailed /\ FromCache(resp)
    /\ ops.cache_writes = 0 /\ ops.cache_reads = 1
    /\ resp.body.cached_at = Val(cache[safe_key(req.query)]).cached_at
    /\ CarriesPayload(resp.body, Val(cache[safe_key(req.query)]).payload)

\* The public estimate stored in the cache record of the request's query.
StoredPublic == Val(Val(cache[safe_key(req.query)]).payload.public)

\* The stored record has a public estimate whose casp is known.
StoredCaspKnown ==
    /\ RecordExists
    /\ ~IsNone(DictGet(Val(cache[safe_key(req.query)]).payload, "public"))
    /\ ~IsNone(DictGet(StoredPublic, "casp"))

\* The deal fields of the public estimate pub are those deal_score computes
\* from casp and asking.
DealFieldsFrom(pub, casp, asking) ==
    LET d == deal_score(casp, asking)
    IN  /\ DOMAIN d \subseteq DOMAIN pub
        /\ \A f \in DOMAIN d : pub[f] = d[f]
        /\ DealFields \cap DOMAIN pub \subseteq DOMAIN d

\* C23: a response served on the cache-first path to a request that gives an
\* asking price, from a record whose casp is known, carries the deal fields
\* computed from the cached casp and this request's asking price, and the
\* cached casp itself.
C23_CacheFirstRecomputed ==
    (EstimateDone /\ ServedCacheFirst(resp) /\ ~IsNone(req.asking) /\ StoredCaspKnown) =>
        /\ HasPublic(resp)
        /\ Val(resp.body.public).casp = StoredPublic.casp
        /\ DealFieldsFrom(Val(resp.body.public), Val(StoredPublic.casp), Val(req.asking))
        /\ DealFields \subseteq DOMAIN Val(resp.body.public)

\* The record was stored by a request asking 70.00; the cache-first request
\* asks 130.00 and is answered with the deal fields of 130.00.
C23_Witness ==
    /\ EstimateDone /\ ServedCacheFirst(resp) /\ StoredCaspKnown
    /\ req.asking = Some(13000)
    /\ "asking" \in DOMAIN StoredPublic /\ StoredPublic.asking = 7000
    /\ Val(resp.body.public).asking = 13000
    /\ Val(resp.body.public).delta = Val(StoredPublic.casp) - 13000
    /\ Val(resp.body.public).delta # StoredPublic.delta

\* The response is the cache fallback after a failed live collection.
ServedFallback(r) ==
    /\ FromCache(r)
    /\ r.body.note = "Live scrape failed; served last cached result."

\* C24 (as claimed): a response served on the cache fallback path, after the
\* live collection failed, to a request that gives an asking price, from a
\* record whose casp is known, carries the deal fields computed from the
\* cached casp and this request's asking price.
C24_FallbackRecomputed ==
    (LiveFailed /\ ServedFallback(resp) /\ ~IsNone(req.asking) /\ StoredCaspKnown) =>
        /\ HasPublic(resp)
        /\ DealFieldsFrom(Val(resp.body.public), Val(StoredPublic.casp), Val(req.asking))
        /\ DealFields \subseteq DOMAIN Val(resp.body.public)

\* The pages scrape_log records as handed to fetch_html.
PagesFetched == {scrape_log[i].page : i \in {j \in DOMAIN scrape_log : scrape_log[j].t = "fetch"}}

\* scrape_ebay_sold has returned to the command line.
CliCollected == caller = "cli" /\ pc = "done" /\ ~IsNone(comps)

\* C25 (as claimed): a collection run from the command line never fetches
\* more than 3 pages, and one that has returned has fetched at least 1.
C25_PagesBounded ==
    caller = "cli" =>
        /\ Cardinality(PagesFetched) <= MaxPages
        /\ CliCollected => Cardinality(PagesFetched) >= MinPages

\* A step of an estimate request that turns caching off (use_cache false).
UncachedStep == EstimateStep /\ ~AsksUseCache(req')

Usable(c, k) == Servable(c[k]) /\ Val(c[k]).payload.n > 0

====
